---- MODULE Spec2Model ----
(***************************************************************************)
(* OrchidBot: the safety-gated control core.                               *)
(*   src/src/core/controller.py   HydroponicController (control loop)      *)
(*   src/src/core/safety.py       SafetyManager (monitor thread, registry) *)
(*   src/src/hardware/gpio_manager.py  GPIOManager (pin driver)            *)
(*   src/src/sensors/overflow.py  OverflowSensorManager (alerts)           *)
(*   src/src/sensors/moisture.py  MoistureSensorManager (read cache)       *)
(*                                                                         *)
(* Three schedules act on the shared state: the asyncio control loop, the  *)
(* SafetyMonitor thread and one threading.Timer per pump activation.       *)
(* Time is discrete.  Every clock of the code (time.time() differences)    *)
(* is kept as an age or a remaining time that saturates, so time may pass  *)
(* for ever in a finite state space.  A due Timer fires before the next    *)
(* clock tick (that tick is the epsilon of the timing statements); the     *)
(* control loop and the monitor may be arbitrarily slow.                   *)
(***************************************************************************)
EXTENDS Integers, Sequences, FiniteSets, TLC

\* ------------------------------------------------------------------ bounds
\* watering.flood_duration, in ticks (the configuration holds 0 or MaxFlood)
MaxFlood == 1
\* watering.drain_duration, in ticks
DrainDuration == 0
\* SafetyManager.watchdog_timeout, in ticks (30.0 s in safety.py, scaled)
WatchdogTimeout == 1
\* watering cycles the model follows
MaxCycles == 2
\* largest timeout a client passes to register_pump_start, in ticks
MaxRegTimeout == 1
\* SIGTERM/SIGINT deliveries the model follows
MaxSignals == 1
\* pin drivers that break during a run
MaxFaults == 1
\* consecutive failing ticks of the control loop that are counted
MaxFailures == 3
\* MoistureSensorManager.cache_duration, in ticks (5.0 s in moisture.py, scaled)
CacheDuration == 1
\* alert callbacks a client registers with the overflow manager
MaxCallbacks == 2

\* ------------------------------------------------------- configuration
\* pumps.pins, in the order the loops visit them
PumpPins == <<18, 19>>
Pins == {PumpPins[i] : i \in 1..Len(PumpPins)}
\* sensors.moisture_threshold
MoistureThreshold == 40
\* sensor ids: <<prefix, address>> stands for f"{prefix}_{address}"
MoistureId == <<"moisture", 32>>
OverflowId == <<"overflow", 21>>
\* moisture percentages a read may deliver
MoistureValues == {35, 45}
\* snapshots handed to _should_water directly: a second moisture sensor, and
\* readings below, at and above the threshold
MoistureIds == {MoistureId, <<"moisture", 33>>}
SnapshotMoisture == {35, 40, 45, 50}
\* what psutil answers: fine, over the limit, throws, or is not installed
Probes == {"ok", "high", "error", "missing"}

VARIABLES
  \* HydroponicController
  running, emergency_stop, pump_states, cycle_count, last_sensor_readings,
  \* watering.flood_duration of the configuration
  flood_duration,
  \* the control task: where it is, the pump index of the flood entry loop,
  \* time since the flood loop / the drain sleep began
  pc, idx, flood_elapsed, drain_elapsed,
  \* shutdown signals delivered so far
  signals,
  \* the output level of each pump pin, and how long it has been high
  pin_states, on_age,
  \* GPIOManager.initialized, and whether the driver is MockGPIO
  gpio_initialized, mock_mode,
  \* SafetyManager
  monitoring, emergency_stop_active, pump_timeouts, safety_violations,
  \* the watchdog check has called emergency_shutdown since the last reset
  wd_fired,
  \* time.time() - last_watchdog_reset, and the pending threading.Timer
  \* callbacks <<pin, remaining>>
  wd_age, timers,
  \* the environment: pins whose driver raises, what psutil answers, and how
  \* a read of the overflow pin goes ("ok", "swallowed": gpio.input raises
  \* inside read_pin, "raised": read_pin itself raises)
  pin_fault, resource_probe, overflow_fault,
  \* observers, kept while observing is set: time since the control loop last
  \* completed a tick (or began), held at WatchdogTimeout + 1 once a tick has
  \* come later than that; and the ticks in a row that ended in the except
  \* branch of _main_loop
  observing, tick_age, failed_ticks,
  \* OverflowSensorManager: overflow_detected, alert_callbacks (the kind of
  \* each registered callable, in order), last_readings; and the calls
  \* <<position, event>> the last read_all made to callbacks.
  \* MoistureSensorManager: last_readings, last_read_time (kept as the age of
  \* each timestamp); what the last read_sensor / read_all returned (the empty
  \* map for None), and the value the last successful bus read returned.
  \* These fields are followed where the managers are driven through their
  \* own methods (SpecOverflowAlerts, SpecMoistureCache); to main() a manager
  \* is what its read_all returns, which ReadSensorsWith and FloodLoop draw
  \* from every value these fields allow.
  overflow_detected, alert_callbacks, alert_log, overflow_last_readings,
  moisture_last_readings, last_read_age, moisture_returned, uncached_value,
  \* the operation that made the last step: <<name, pin or 0, outcome>>
  last

vars == <<running, emergency_stop, pump_states, cycle_count, last_sensor_readings,
          flood_duration, pc, idx, flood_elapsed, drain_elapsed, signals,
          pin_states, on_age, gpio_initialized, mock_mode,
          monitoring, emergency_stop_active, pump_timeouts, safety_violations,
          wd_fired, wd_age, timers, pin_fault, resource_probe, overflow_fault,
          observing, tick_age, failed_ticks,
          overflow_detected, alert_callbacks, alert_log, overflow_last_readings,
          moisture_last_readings, last_read_age, moisture_returned, uncached_value,
          last>>

ctlVars == <<running, emergency_stop, pump_states, cycle_count, last_sensor_readings>>
taskVars == <<pc, idx, flood_elapsed, drain_elapsed>>
hwVars == <<pin_states, on_age>>
gpVars == <<gpio_initialized, mock_mode>>
smVars == <<monitoring, emergency_stop_active, pump_timeouts, safety_violations, wd_fired>>
clockVars == <<wd_age, timers>>
envVars == <<pin_fault, resource_probe, overflow_fault, flood_duration>>
obsVars == <<observing, tick_age, failed_ticks>>
overflowVars == <<overflow_detected, alert_callbacks, alert_log, overflow_last_readings>>
moistureVars == <<moisture_last_readings, last_read_age, moisture_returned, uncached_value>>
sensorVars == <<overflowVars, moistureVars>>

\* ----------------------------------------------------------------- helpers
Min(a, b) == IF a < b THEN a ELSE b
Max(a, b) == IF a > b THEN a ELSE b
EmptyMap == [x \in {} |-> 0]
Put(f, k, v) == [x \in DOMAIN f \cup {k} |-> IF x = k THEN v ELSE f[x]]
Remove(f, K) == [x \in DOMAIN f \ K |-> f[x]]
IndexOf(p) == CHOOSE i \in 1..Len(PumpPins) : PumpPins[i] = p
AllOff == [p \in Pins |-> FALSE]
\* the label of a step no statement below singles out
Quiet == <<"env", 0, "-">>

\* -------------------------------------------------------------- GPIOManager
\* set_pin raises: the driver faults on this pin, or (real RPi.GPIO) the
\* channel is no longer set up after cleanup(); MockGPIO.output always works
WriteFails(p) ==
  p \in pin_fault \/ (~gpio_initialized /\ ~mock_mode)

\* a read_pin that answers HIGH when the driver fails
ReadPinFailsHigh(level) == IF overflow_fault = "swallowed" THEN TRUE ELSE level
\* read_pin on the overflow pin whose line is at level: a driver error is
\* caught and answered with False
ReadPin(level) == IF overflow_fault = "swallowed" THEN FALSE ELSE level
\* OverflowSensorManager.read_all: the reading of the float switch (active
\* low); an exception of read_pin is recorded as True
OverflowReading(level) == IF overflow_fault = "raised" THEN TRUE ELSE ~ReadPin(level)
\* check_overflow: any(readings.values())
CheckOverflow(level) == OverflowReading(level)

\* _stop_all_pumps visits pumps.pins in order and has no handler around
\* set_pin: the first failing write ends the loop with the exception
FirstFail ==
  IF \E i \in 1..Len(PumpPins) : WriteFails(PumpPins[i])
  THEN CHOOSE i \in 1..Len(PumpPins) :
         /\ WriteFails(PumpPins[i])
         /\ \A j \in 1..(i - 1) : ~WriteFails(PumpPins[j])
  ELSE 0
\* the pin whose write ended _stop_all_pumps, 0 when it ran through
RaisingPin == IF FirstFail = 0 THEN 0 ELSE PumpPins[FirstFail]
StopLimit == IF FirstFail = 0 THEN Len(PumpPins) + 1 ELSE FirstFail
StopAllRaises == FirstFail # 0
PinsUntouched == pin_states
\* a stop-all that writes the first configured pin only
StopFirstPinOnly == [p \in Pins |-> IF IndexOf(p) = 1 THEN FALSE ELSE pin_states[p]]
StopAllPins == [p \in Pins |-> IF IndexOf(p) < StopLimit THEN FALSE ELSE pin_states[p]]
StopAllStates == [p \in Pins |-> IF IndexOf(p) < StopLimit THEN FALSE ELSE pump_states[p]]
\* time a pin has been high: bookkeeping of the model, 0 while the pin is low
AgeAfter(ps) == [p \in Pins |-> IF ps[p] THEN on_age[p] ELSE 0]

\* ------------------------------------------------------------ SafetyManager
CheckEmergencyStopSM == emergency_stop_active
CheckSystemResources == resource_probe \in {"ok", "missing"}
CheckHardwareConnections == TRUE
CurrentViolations ==
  (IF CheckEmergencyStopSM THEN <<"Emergency stop activated">> ELSE <<>>)
  \o (IF ~CheckSystemResources THEN <<"System resource limits exceeded">> ELSE <<>>)
  \o (IF ~CheckHardwareConnections THEN <<"Hardware connection issues detected">> ELSE <<>>)
\* the resource and hardware predicates alone
ChecksWithoutEmergency ==
  /\ CheckSystemResources
  /\ CheckHardwareConnections
\* a check that answers whether the violation list is the stored one
CheckAllOnChange == CurrentViolations = safety_violations
\* check_all_safety_conditions: the value it returns (it also stores
\* CurrentViolations in safety_violations)
CheckAll ==
  /\ ~CheckEmergencyStopSM
  /\ CheckSystemResources
  /\ CheckHardwareConnections
\* a pump check that does not look at the registry
CheckAllOnly(pin) == CheckAll
\* check_pump_safety(pin)
CheckPumpSafety(pin) ==
  /\ CheckAll
  /\ pin \notin DOMAIN pump_timeouts
\* register_pump_start / register_pump_stop: the registry they leave
RegisterPumpStart(pin, timeout) == Put(pump_timeouts, pin, timeout)
RegisterPumpStop(pin) == Remove(pump_timeouts, {pin})
\* SafetyManager.emergency_shutdown: the flag and the registry it leaves
ShutdownFlag == TRUE
ShutdownRegistry == EmptyMap
\* a flag that only mirrors the watchdog
FlagFollowsWatchdog(fired) == fired
\* _check_watchdog_timeout, as _monitor_loop runs it: an expired watchdog calls
\* emergency_shutdown(), otherwise the flag is left alone
MonitorFlag(fired) == IF fired THEN ShutdownFlag ELSE emergency_stop_active
\* _check_watchdog_timeout: time.time() - last_watchdog_reset > watchdog_timeout
WatchdogExpired == wd_age > WatchdogTimeout
\* _check_pump_timeouts: current_time > timeout_time
ExpiredIn(reg) == {p \in DOMAIN reg : reg[p] < 0}

\* ---------------------------------------------------------- controller
\* a decision that also waters at the threshold
ShouldWaterAtOrBelow ==
  \E id \in DOMAIN last_sensor_readings :
    id[1] = "moisture" /\ last_sensor_readings[id] <= MoistureThreshold
\* _should_water: some "moisture_" entry is below the threshold
ShouldWater ==
  \E id \in DOMAIN last_sensor_readings :
    id[1] = "moisture" /\ last_sensor_readings[id] < MoistureThreshold

\* the await points of the control task, where other asyncio tasks run
AwaitPoints == {"read_sensors", "flood_loop", "drain", "sleep"}

\* the state after HydroponicController() is constructed
\* (pump_states is an empty dict until _initialize_hardware fills it; a pin
\* without an entry counts as off)
InitEnv(duration, observe, probe) ==
  /\ running = FALSE
  /\ emergency_stop = FALSE
  /\ pump_states = AllOff
  /\ cycle_count = 0
  /\ last_sensor_readings = EmptyMap
  /\ flood_duration = duration
  /\ pc = "init"
  /\ idx = 0
  /\ flood_elapsed = 0
  /\ drain_elapsed = 0
  /\ signals = 0
  /\ pin_states = AllOff
  /\ on_age = [p \in Pins |-> 0]
  /\ gpio_initialized = TRUE
  /\ mock_mode = TRUE
  /\ monitoring = FALSE
  /\ emergency_stop_active = FALSE
  /\ pump_timeouts = EmptyMap
  /\ safety_violations = <<>>
  /\ wd_fired = FALSE
  /\ wd_age = 0
  /\ timers = {}
  /\ pin_fault = {}
  /\ resource_probe = probe
  /\ overflow_fault = "ok"
  /\ observing = observe
  /\ tick_age = 0
  /\ failed_ticks = 0
  /\ overflow_detected = FALSE
  /\ alert_callbacks = <<>>
  /\ alert_log = <<>>
  /\ overflow_last_readings = EmptyMap
  /\ moisture_last_readings = EmptyMap
  /\ last_read_age = EmptyMap
  /\ moisture_returned = EmptyMap
  /\ uncached_value = EmptyMap
  /\ last = <<"init", 0, "ok">>

\* a host on which psutil is installed and memory and CPU load are normal
InitConfig(duration, observe) == InitEnv(duration, observe, "ok")
\* the default build: a flood phase of MaxFlood ticks
Init == InitConfig(MaxFlood, FALSE)
\* the same, with the tick observers running
InitObserved == InitConfig(MaxFlood, TRUE)
\* a build whose configuration has watering.flood_duration = 0
InitZeroFlood == InitConfig(0, FALSE)
\* a host without psutil: `import psutil` raises ImportError
InitNoPsutil == InitEnv(MaxFlood, FALSE, "missing")

\* start(): running = True, _initialize_hardware, start_monitoring
Start ==
  /\ pc = "init"
  /\ ~running
  /\ running' = TRUE
  /\ pump_states' = AllOff
  /\ pin_states' = AllOff
  /\ on_age' = AgeAfter(AllOff)
  /\ monitoring' = TRUE
  /\ pc' = "loop_top"
  /\ last' = <<"start", 0, "ok">>
  /\ UNCHANGED <<emergency_stop, cycle_count, last_sensor_readings, idx, flood_elapsed,
                 drain_elapsed, signals, emergency_stop_active, pump_timeouts,
                 safety_violations, wd_fired, gpVars, clockVars, envVars, obsVars, sensorVars>>

\* ------------------------------------------------------ the control task
\* gates that let everything through, and an activation without a Timer
GateOpen(pin) == TRUE
PreflightOpen == TRUE
NoTimers(pin, timeout) == {}
\* _start_pump's gate: check_pump_safety(pin) must return True
StartPumpGate(pin) == CheckPumpSafety(pin)
\* _execute_watering_cycle's pre-flight gate
PreflightGate == CheckAll
\* the Timer _start_pump starts for an activation
NewTimers(pin, timeout) == {<<pin, timeout>>}

\* HydroponicController.emergency_shutdown(): _stop_all_pumps(), then the
\* flags, then the safety manager's emergency_shutdown(); an exception of
\* _stop_all_pumps skips the rest.  latched: _check_emergency_stop has set
\* emergency_stop before the call.
EmergencyShutdown(latched) ==
  /\ pin_states' = StopAllPins
  /\ pump_states' = StopAllStates
  /\ on_age' = AgeAfter(StopAllPins)
  /\ IF StopAllRaises
     THEN /\ emergency_stop' = (emergency_stop \/ latched)
          /\ last' = <<"emergency_shutdown", 0, "raised">>
          /\ UNCHANGED <<running, emergency_stop_active, pump_timeouts>>
     ELSE /\ emergency_stop' = TRUE
          /\ running' = FALSE
          /\ emergency_stop_active' = ShutdownFlag
          /\ pump_timeouts' = ShutdownRegistry
          /\ last' = <<"emergency_shutdown", 0, "ok">>

\* a tick of _main_loop ends in its except branch (sleep(5.0)), or reaches the
\* asyncio.sleep(1.0) at its end
TickFailed ==
  /\ failed_ticks' = IF observing THEN Min(failed_ticks + 1, MaxFailures) ELSE failed_ticks
  /\ UNCHANGED <<observing, tick_age>>
TickCompleted ==
  /\ tick_age' = IF observing /\ tick_age <= WatchdogTimeout THEN 0 ELSE tick_age
  /\ failed_ticks' = 0
  /\ UNCHANGED observing

\* _main_loop: the while condition and the emergency-stop check of one tick.
\* estop is what `not read_pin(emergency_pin)` gives (the line reads low, or
\* the read failed and read_pin answered False).
LoopTop ==
  /\ pc = "loop_top"
  /\ IF ~(running /\ ~emergency_stop)
     THEN /\ pc' = "finally"
          /\ last' = <<"main_loop", 0, "exit">>
          /\ UNCHANGED <<ctlVars, hwVars, smVars, obsVars>>
     ELSE \E estop \in BOOLEAN :
            IF ~estop
            THEN /\ pc' = "read_sensors"
                 /\ last' = <<"main_loop", 0, "continue">>
                 /\ UNCHANGED <<ctlVars, hwVars, smVars, obsVars>>
            ELSE \* _check_emergency_stop latched the flag; emergency_shutdown();
                 \* its exception is caught by the loop's except: sleep(5.0)
                 /\ EmergencyShutdown(TRUE)
                 /\ pc' = IF StopAllRaises THEN "sleep" ELSE "finally"
                 /\ IF StopAllRaises THEN TickFailed ELSE UNCHANGED obsVars
                 /\ UNCHANGED <<cycle_count, last_sensor_readings, monitoring,
                                safety_violations, wd_fired>>
  /\ UNCHANGED <<idx, flood_elapsed, drain_elapsed, signals, gpVars, clockVars, envVars, sensorVars>>

\* a read that drops the snapshot when a source raises
ReadSensorsForgetting(outcome, delivered) ==
  /\ pc = "read_sensors"
  /\ \E m \in MoistureValues, level \in BOOLEAN :
       last_sensor_readings' =
         IF outcome # "ok" THEN EmptyMap
         ELSE Put(IF delivered THEN Put(last_sensor_readings, MoistureId, m)
                  ELSE last_sensor_readings, OverflowId, OverflowReading(level))
  /\ last' = <<"read_sensors", 0, IF outcome = "ok" /\ ~delivered THEN "no_moisture" ELSE outcome>>
  /\ pc' = "decide"
  /\ UNCHANGED <<running, emergency_stop, pump_states, cycle_count, idx, flood_elapsed,
                 drain_elapsed, signals, hwVars, gpVars, smVars, clockVars, envVars, obsVars, sensorVars>>

\* _read_sensors: moisture read_all (a sensor that delivers nothing leaves its
\* entry as it was), then overflow read_all; an exception ends the method
ReadSensorsWith(outcome, delivered) ==
  /\ pc = "read_sensors"
  /\ \E m \in MoistureValues, level \in BOOLEAN :
       LET afterMoisture ==
             IF outcome # "moisture_raised" /\ delivered
             THEN Put(last_sensor_readings, MoistureId, m)
             ELSE last_sensor_readings
       IN last_sensor_readings' =
            IF outcome = "ok" THEN Put(afterMoisture, OverflowId, OverflowReading(level))
            ELSE afterMoisture
  /\ last' = <<"read_sensors", 0, IF outcome = "ok" /\ ~delivered THEN "no_moisture" ELSE outcome>>
  /\ pc' = "decide"
  /\ UNCHANGED <<running, emergency_stop, pump_states, cycle_count, idx, flood_elapsed,
                 drain_elapsed, signals, hwVars, gpVars, smVars, clockVars, envVars, obsVars, sensorVars>>

\* every sensor answers
ReadSensors == ReadSensorsWith("ok", TRUE)

\* read_sensor returns None for the moisture sensor (bus error or invalid
\* value, the cache window being over): read_all leaves the id out
ReadSensorsDegraded == ReadSensorsWith("ok", FALSE)

\* read_all of the moisture or of the overflow manager raises, as the tests
\* make it do
ReadSensorsRaising ==
  \E outcome \in {"moisture_raised", "overflow_raised"} : ReadSensorsWith(outcome, TRUE)

\* _should_water, and _execute_watering_cycle up to the pre-flight check
Decide ==
  /\ pc = "decide"
  /\ IF ~ShouldWater
     THEN /\ pc' = "safety_check"
          /\ idx' = idx
          /\ last' = <<"should_water", 0, "false">>
          /\ UNCHANGED safety_violations
     ELSE /\ cycle_count < MaxCycles
          /\ safety_violations' = CurrentViolations
          /\ IF PreflightGate
             THEN /\ pc' = "flood_start"
                  /\ idx' = 1
                  /\ last' = <<"preflight", 0, "true">>
             ELSE /\ pc' = "safety_check"
                  /\ idx' = idx
                  /\ last' = <<"preflight", 0, "false">>
  /\ UNCHANGED <<ctlVars, flood_elapsed, drain_elapsed, signals, hwVars, gpVars,
                 monitoring, emergency_stop_active, pump_timeouts, wd_fired,
                 clockVars, envVars, obsVars, sensorVars>>

\* a flood entry loop that leaves the remaining pins out
SkipRemainingPins ==
  /\ idx' = 0
  /\ pc' = "flood_loop"
  /\ flood_elapsed' = 0
\* the flood entry loop moves to the next pin, or into the monitoring loop
\* (start_time = time.time())
Advance ==
  IF idx < Len(PumpPins)
  THEN /\ idx' = idx + 1
       /\ pc' = "flood_start"
       /\ UNCHANGED flood_elapsed
  ELSE /\ idx' = 0
       /\ pc' = "flood_loop"
       /\ flood_elapsed' = 0

\* a _start_pump that takes a failed write for a started pump
StartedDespiteFault(pin) == IF ~StartPumpGate(pin) THEN "refused" ELSE "started"
\* how _start_pump(pin, ...) ends: the gate refuses (return False), set_pin
\* raises (caught, return False), or the pump is started (return True)
StartPumpOutcome(pin) ==
  IF ~StartPumpGate(pin) THEN "refused"
  ELSE IF WriteFails(pin) THEN "raised"
  ELSE "started"

\* _start_pump(pin, timeout): what it does to the safety manager, the pin and
\* the timers.  Timers that agree in pin and remaining time fire together and
\* are kept as one.
StartPump(pin, timeout) ==
  /\ safety_violations' = CurrentViolations
  /\ last' = <<"start_pump", pin, StartPumpOutcome(pin)>>
  /\ IF StartPumpOutcome(pin) = "started"
     THEN /\ pin_states' = [pin_states EXCEPT ![pin] = TRUE]
          /\ on_age' = [on_age EXCEPT ![pin] = IF pin_states[pin] THEN @ ELSE 0]
          /\ timers' = timers \cup NewTimers(pin, timeout)
     ELSE UNCHANGED <<pin_states, on_age, timers>>

\* _flood_phase: await self._start_pump(pin, timeout=flood_duration)
FloodStartPump ==
  /\ pc = "flood_start"
  /\ StartPump(PumpPins[idx], flood_duration)
  /\ IF StartPumpOutcome(PumpPins[idx]) = "started"
     THEN /\ pc' = "flood_book"
          /\ UNCHANGED <<idx, flood_elapsed>>
     ELSE Advance
  /\ UNCHANGED <<ctlVars, drain_elapsed, signals, gpVars, monitoring,
                 emergency_stop_active, pump_timeouts, wd_fired, wd_age, envVars, obsVars, sensorVars>>

\* _flood_phase: self.pump_states[pin] = True after _start_pump returned True
FloodBook ==
  /\ pc = "flood_book"
  /\ pump_states' = [pump_states EXCEPT ![PumpPins[idx]] = TRUE]
  /\ last' = <<"pump_on_recorded", PumpPins[idx], "ok">>
  /\ Advance
  /\ UNCHANGED <<running, emergency_stop, cycle_count, last_sensor_readings,
                 drain_elapsed, signals, hwVars, gpVars, smVars, clockVars, envVars, obsVars, sensorVars>>

\* a flood loop that does not look at the time
NeverElapsed(ov, es) ==
  IF ov THEN "overflow"
  ELSE IF es THEN "emergency"
  ELSE "sleep"
\* why the flood loop ends in this evaluation, or "sleep" when it goes on.
\* ov is check_overflow()'s answer, es the emergency input's.
FloodExit(ov, es) ==
  IF ~(flood_elapsed < flood_duration) THEN "elapsed"
  ELSE IF ov THEN "overflow"
  ELSE IF es THEN "emergency"
  ELSE "sleep"

\* _flood_phase: one evaluation of the monitoring loop and, when it ends,
\* _stop_all_pumps().  An exception of _stop_all_pumps reaches the handler of
\* _execute_watering_cycle, whose own _stop_all_pumps() raises again, and then
\* the handler of _main_loop (sleep(5.0)).
FloodLoop ==
  /\ pc = "flood_loop"
  /\ \E level \in BOOLEAN, es \in BOOLEAN :
       LET why == FloodExit(CheckOverflow(level), es) IN
         /\ emergency_stop' = (emergency_stop \/ why = "emergency")
         /\ IF why = "sleep"
            THEN /\ last' = <<"flood_loop", 0, "sleep">>
                 /\ UNCHANGED <<pc, drain_elapsed, pin_states, pump_states, on_age, obsVars>>
            ELSE /\ pin_states' = StopAllPins
                 /\ pump_states' = StopAllStates
                 /\ on_age' = AgeAfter(StopAllPins)
                 /\ last' = <<"flood_stop", RaisingPin, why>>
                 /\ IF StopAllRaises
                    THEN /\ pc' = "sleep"
                         /\ TickFailed
                         /\ UNCHANGED drain_elapsed
                    ELSE /\ pc' = "drain"
                         /\ drain_elapsed' = 0
                         /\ UNCHANGED obsVars
  /\ UNCHANGED <<running, cycle_count, last_sensor_readings, idx, flood_elapsed, signals,
                 gpVars, smVars, clockVars, envVars, sensorVars>>

\* a drain phase whose completed cycle is not counted
DrainDoneUncounted ==
  /\ pc = "drain"
  /\ drain_elapsed >= DrainDuration
  /\ pc' = "safety_check"
  /\ last' = <<"cycle_done", 0, "ok">>
  /\ UNCHANGED <<running, emergency_stop, pump_states, cycle_count, last_sensor_readings,
                 idx, flood_elapsed, drain_elapsed, signals, hwVars, gpVars, smVars,
                 clockVars, envVars, obsVars, sensorVars>>

\* _drain_phase returns after drain_duration; the cycle is counted
DrainDone ==
  /\ pc = "drain"
  /\ drain_elapsed >= DrainDuration
  /\ cycle_count' = cycle_count + 1
  /\ pc' = "safety_check"
  /\ last' = <<"cycle_done", 0, "ok">>
  /\ UNCHANGED <<running, emergency_stop, pump_states, last_sensor_readings, idx,
                 flood_elapsed, drain_elapsed, signals, hwVars, gpVars, smVars,
                 clockVars, envVars, obsVars, sensorVars>>

\* _main_loop: "Safety checks" at the end of the tick
SafetyCheck ==
  /\ pc = "safety_check"
  /\ safety_violations' = CurrentViolations
  /\ IF CheckAll
     THEN /\ last' = <<"safety_check", 0, "true">>
          /\ TickCompleted
          /\ UNCHANGED <<pin_states, pump_states, on_age>>
     ELSE /\ pin_states' = StopAllPins
          /\ pump_states' = StopAllStates
          /\ on_age' = AgeAfter(StopAllPins)
          /\ last' = <<"safety_check", 0, IF StopAllRaises THEN "raised" ELSE "false">>
          /\ IF StopAllRaises THEN TickFailed ELSE TickCompleted
  /\ pc' = "sleep"
  /\ UNCHANGED <<running, emergency_stop, cycle_count, last_sensor_readings, idx,
                 flood_elapsed, drain_elapsed, signals, gpVars, monitoring,
                 emergency_stop_active, pump_timeouts, wd_fired, clockVars, envVars, sensorVars>>

\* asyncio.sleep(1.0), or sleep(5.0) after an exception, is over
SleepDone ==
  /\ pc = "sleep"
  /\ pc' = "loop_top"
  /\ last' = Quiet
  /\ UNCHANGED <<ctlVars, idx, flood_elapsed, drain_elapsed, signals, hwVars, gpVars,
                 smVars, clockVars, envVars, obsVars, sensorVars>>

\* stop(): running = False, _stop_all_pumps(), gpio_manager.cleanup(),
\* stop_monitoring(); an exception of _stop_all_pumps skips the rest.
\* cleanup() leaves no pin driven (MockGPIO clears pin_states, RPi.GPIO turns
\* the channels into inputs).  Which of the two drivers the build uses shows
\* first once cleanup() has run, and is decided there.
StopBody(name) ==
  /\ running' = FALSE
  /\ pump_states' = StopAllStates
  /\ IF StopAllRaises
     THEN /\ pin_states' = StopAllPins
          /\ on_age' = AgeAfter(StopAllPins)
          /\ last' = <<name, 0, "raised">>
          /\ UNCHANGED <<gpio_initialized, mock_mode, monitoring>>
     ELSE /\ pin_states' = AllOff
          /\ on_age' = AgeAfter(AllOff)
          /\ gpio_initialized' = FALSE
          /\ IF gpio_initialized THEN mock_mode' \in BOOLEAN ELSE UNCHANGED mock_mode
          /\ monitoring' = FALSE
          /\ last' = <<name, 0, "ok">>
  /\ UNCHANGED <<emergency_stop, cycle_count, last_sensor_readings, idx, flood_elapsed,
                 drain_elapsed, emergency_stop_active, pump_timeouts, safety_violations,
                 wd_fired, clockVars, envVars, obsVars, sensorVars>>

\* start(): finally: await self.stop()
StopFinally ==
  /\ pc = "finally"
  /\ StopBody("stop")
  /\ pc' = "main_finally"
  /\ UNCHANGED signals

\* main(): finally: await controller.stop()
StopMain ==
  /\ pc = "main_finally"
  /\ StopBody("stop_again")
  /\ pc' = "done"
  /\ UNCHANGED signals

\* _signal_handler: asyncio.create_task(self.stop()); the task runs while the
\* control task is suspended at an await
SignalStop ==
  /\ pc \in AwaitPoints
  /\ signals < MaxSignals
  /\ signals' = signals + 1
  /\ StopBody("signal_stop")
  /\ UNCHANGED pc

\* ------------------------------------------------ Timer threads, monitor
\* _force_stop_pump(pin), run by a due threading.Timer
TimerFire(tm) ==
  /\ tm \in timers
  /\ tm[2] = 0
  /\ timers' = timers \ {tm}
  /\ IF WriteFails(tm[1])
     THEN /\ last' = <<"force_stop_pump", tm[1], "raised">>
          /\ UNCHANGED <<pin_states, pump_states, on_age>>
     ELSE /\ pin_states' = [pin_states EXCEPT ![tm[1]] = FALSE]
          /\ pump_states' = [pump_states EXCEPT ![tm[1]] = FALSE]
          /\ on_age' = [on_age EXCEPT ![tm[1]] = 0]
          /\ last' = <<"force_stop_pump", tm[1], "ok">>
  /\ UNCHANGED <<running, emergency_stop, cycle_count, last_sensor_readings, taskVars,
                 signals, gpVars, smVars, wd_age, envVars, obsVars, sensorVars>>

\* one pass of _monitor_loop: check_all_safety_conditions(),
\* _check_watchdog_timeout(), _check_pump_timeouts()
MonitorPass ==
  /\ monitoring
  /\ LET fired == WatchdogExpired
         reg == IF fired THEN ShutdownRegistry ELSE pump_timeouts
         expired == ExpiredIn(reg)
         swept == [p \in Pins |->
                     IF p \in expired /\ ~WriteFails(p) THEN FALSE ELSE pin_states[p]]
     IN /\ safety_violations' = CurrentViolations
        /\ emergency_stop_active' = MonitorFlag(fired)
        /\ wd_fired' = (wd_fired \/ fired)
        /\ pin_states' = swept
        /\ on_age' = AgeAfter(swept)
        /\ pump_timeouts' = Remove(reg, expired)
        /\ last' = IF fired THEN <<"monitor_pass", 0, "watchdog">>
                   ELSE IF expired # {} THEN <<"monitor_pass", 0, "sweep">>
                   ELSE Quiet
  /\ UNCHANGED <<ctlVars, taskVars, signals, gpVars, monitoring, clockVars, envVars, obsVars, sensorVars>>

\* ------------------------------------------------------------ environment
\* one unit of time passes; a due Timer fires first
Tick ==
  /\ \A tm \in timers : tm[2] > 0
  /\ timers' = {<<tm[1], tm[2] - 1>> : tm \in timers}
  /\ wd_age' = Min(wd_age + 1, WatchdogTimeout + 1)
  /\ pump_timeouts' = [p \in DOMAIN pump_timeouts |-> Max(pump_timeouts[p] - 1, -1)]
  /\ flood_elapsed' = IF pc = "flood_loop" THEN Min(flood_elapsed + 1, flood_duration)
                      ELSE flood_elapsed
  /\ drain_elapsed' = IF pc = "drain" THEN Min(drain_elapsed + 1, DrainDuration)
                      ELSE drain_elapsed
  /\ on_age' = [p \in Pins |-> IF pin_states[p] THEN Min(on_age[p] + 1, MaxFlood + 1) ELSE 0]
  /\ last' = Quiet
  /\ tick_age' = IF observing THEN Min(tick_age + 1, WatchdogTimeout + 1) ELSE tick_age
  /\ last_read_age' = [a \in DOMAIN last_read_age |->
                         Min(last_read_age[a] + 1, CacheDuration)]
  /\ UNCHANGED <<ctlVars, pc, idx, signals, pin_states, gpVars, monitoring,
                 emergency_stop_active, safety_violations, wd_fired, envVars,
                 observing, failed_ticks, overflowVars, moisture_last_readings,
                 moisture_returned, uncached_value>>

\* the driver of a pin breaks: every later set_pin on it raises
HardwareFault(p) ==
  /\ p \notin pin_fault
  /\ Cardinality(pin_fault) < MaxFaults
  /\ pin_fault' = pin_fault \cup {p}
  /\ last' = Quiet
  /\ UNCHANGED <<ctlVars, taskVars, signals, hwVars, gpVars, smVars, clockVars,
                 resource_probe, overflow_fault, flood_duration, obsVars, sensorVars>>

\* memory or CPU load changes, or psutil starts or stops throwing
ResourceChange(v) ==
  /\ resource_probe # "missing"
  /\ v \in Probes \ {"missing", resource_probe}
  /\ resource_probe' = v
  /\ last' = Quiet
  /\ UNCHANGED <<ctlVars, taskVars, signals, hwVars, gpVars, smVars, clockVars,
                 pin_fault, overflow_fault, flood_duration, obsVars, sensorVars>>

\* reads of the overflow pin start or stop failing
OverflowFault(v) ==
  /\ v \in {"ok", "swallowed", "raised"} \ {overflow_fault}
  /\ overflow_fault' = v
  /\ last' = Quiet
  /\ UNCHANGED <<ctlVars, taskVars, signals, hwVars, gpVars, smVars, clockVars,
                 pin_fault, resource_probe, flood_duration, obsVars, sensorVars>>

\* the program as main() runs it
Next ==
  \/ Start
  \/ LoopTop
  \/ ReadSensors
  \/ Decide
  \/ FloodStartPump
  \/ FloodBook
  \/ FloodLoop
  \/ DrainDone
  \/ SafetyCheck
  \/ SleepDone
  \/ StopFinally
  \/ StopMain
  \/ \E tm \in timers : TimerFire(tm)
  \/ MonitorPass
  \/ Tick

\* main() in a quiet environment: no driver fault, steady load, no signal
Spec == Init /\ [][Next]_vars

\* ... and pin drivers may break
NextFault ==
  \/ Next
  \/ \E p \in Pins : HardwareFault(p)
SpecFault == Init /\ [][NextFault]_vars

\* ... and memory and CPU load may change
NextLoad ==
  \/ Next
  \/ \E v \in {"ok", "high"} : ResourceChange(v)
SpecLoad == Init /\ [][NextLoad]_vars

\* ... and a shutdown signal may arrive
NextSignal ==
  \/ Next
  \/ SignalStop
SpecSignal == Init /\ [][NextSignal]_vars

\* ... and the moisture sensor may fail to answer
NextSensor ==
  \/ Next
  \/ ReadSensorsDegraded
SpecSensor == Init /\ [][NextSensor]_vars

\* ... and a sensor manager's read_all may raise
NextSensorFault ==
  \/ Next
  \/ ReadSensorsRaising
SpecSensorFault == Init /\ [][NextSensorFault]_vars

\* ... and reads of the overflow pin may fail
NextOverflow ==
  \/ Next
  \/ \E v \in {"ok", "swallowed", "raised"} : OverflowFault(v)
SpecOverflow == Init /\ [][NextOverflow]_vars

\* main() with watering.flood_duration = 0
SpecZeroFlood == InitZeroFlood /\ [][Next]_vars

\* main() in a quiet environment, ticks observed
SpecWatchdog == InitObserved /\ [][Next]_vars

\* main() with pin drivers that may break, ticks observed
SpecRetry == InitObserved /\ [][NextFault]_vars

\* ------------------------------------------- the objects driven directly
\* The unit and integration tests construct a controller and call its methods
\* and those of its safety manager without start(): the actions below are
\* these calls, made while the control task has not begun.
Harness == pc = "init"

\* SafetyManager.start_monitoring()
ApiStartMonitoring ==
  /\ Harness
  /\ ~monitoring
  /\ monitoring' = TRUE
  /\ last' = <<"start_monitoring", 0, "ok">>
  /\ UNCHANGED <<ctlVars, taskVars, signals, hwVars, gpVars, emergency_stop_active,
                 pump_timeouts, safety_violations, wd_fired, clockVars, envVars, obsVars, sensorVars>>

\* SafetyManager.register_pump_start(pin, timeout)
ApiRegisterPumpStart(pin, timeout) ==
  /\ Harness
  /\ pump_timeouts' = RegisterPumpStart(pin, timeout)
  /\ last' = <<"register_pump_start", pin, "ok">>
  /\ UNCHANGED <<ctlVars, taskVars, signals, hwVars, gpVars, monitoring,
                 emergency_stop_active, safety_violations, wd_fired, clockVars, envVars, obsVars, sensorVars>>

\* SafetyManager.register_pump_stop(pin)
ApiRegisterPumpStop(pin) ==
  /\ Harness
  /\ pump_timeouts' = RegisterPumpStop(pin)
  /\ last' = <<"register_pump_stop", pin, "ok">>
  /\ UNCHANGED <<ctlVars, taskVars, signals, hwVars, gpVars, monitoring,
                 emergency_stop_active, safety_violations, wd_fired, clockVars, envVars, obsVars, sensorVars>>

\* SafetyManager.reset_watchdog()
ApiResetWatchdog ==
  /\ Harness
  /\ wd_age' = 0
  /\ wd_fired' = FALSE
  /\ last' = <<"reset_watchdog", 0, "ok">>
  /\ UNCHANGED <<ctlVars, taskVars, signals, hwVars, gpVars, monitoring,
                 emergency_stop_active, pump_timeouts, safety_violations, timers, envVars, obsVars, sensorVars>>

\* SafetyManager.check_all_safety_conditions()
ApiCheckAll ==
  /\ Harness
  /\ safety_violations' = CurrentViolations
  /\ last' = <<"check_all", 0, IF CheckAll THEN "true" ELSE "false">>
  /\ UNCHANGED <<ctlVars, taskVars, signals, hwVars, gpVars, monitoring,
                 emergency_stop_active, pump_timeouts, wd_fired, clockVars, envVars, obsVars, sensorVars>>

\* SafetyManager.check_pump_safety(pin)
ApiCheckPumpSafety(pin) ==
  /\ Harness
  /\ safety_violations' = CurrentViolations
  /\ last' = <<"check_pump_safety", pin, IF CheckPumpSafety(pin) THEN "true" ELSE "false">>
  /\ UNCHANGED <<ctlVars, taskVars, signals, hwVars, gpVars, monitoring,
                 emergency_stop_active, pump_timeouts, wd_fired, clockVars, envVars, obsVars, sensorVars>>

\* SafetyManager.emergency_shutdown()
ApiTriggerEmergency ==
  /\ Harness
  /\ emergency_stop_active' = ShutdownFlag
  /\ pump_timeouts' = ShutdownRegistry
  /\ last' = <<"trigger_emergency", 0, "ok">>
  /\ UNCHANGED <<ctlVars, taskVars, signals, hwVars, gpVars, monitoring,
                 safety_violations, wd_fired, clockVars, envVars, obsVars, sensorVars>>

\* HydroponicController._start_pump(pin, timeout)
ApiStartPump(pin, timeout) ==
  /\ Harness
  /\ StartPump(pin, timeout)
  /\ UNCHANGED <<ctlVars, taskVars, signals, gpVars, monitoring,
                 emergency_stop_active, pump_timeouts, wd_fired, wd_age, envVars, obsVars, sensorVars>>

\* HydroponicController.emergency_shutdown()
ApiEmergencyShutdown ==
  /\ Harness
  /\ EmergencyShutdown(FALSE)
  /\ UNCHANGED <<cycle_count, last_sensor_readings, taskVars, signals, gpVars,
                 monitoring, safety_violations, wd_fired, clockVars, envVars, obsVars, sensorVars>>

\* controller.running = True, as the tests set it before a shutdown
ApiSetRunning ==
  /\ Harness
  /\ ~running
  /\ running' = TRUE
  /\ last' = <<"set_running", 0, "ok">>
  /\ UNCHANGED <<emergency_stop, pump_states, cycle_count, last_sensor_readings, taskVars,
                 signals, hwVars, gpVars, smVars, clockVars, envVars, obsVars, sensorVars>>

\* HydroponicController.stop()
ApiStop ==
  /\ Harness
  /\ StopBody("stop")
  /\ UNCHANGED <<pc, signals>>

\* controller.last_sensor_readings = {...}, as test_should_water_logic sets it
Merge(a, b) == [x \in DOMAIN a \cup DOMAIN b |-> IF x \in DOMAIN a THEN a[x] ELSE b[x]]
Snapshots ==
  {Merge(m, o) : m \in UNION {[D -> SnapshotMoisture] : D \in SUBSET MoistureIds},
                 o \in UNION {[D -> BOOLEAN] : D \in SUBSET {OverflowId}}}
ApiSetReadings(snapshot) ==
  /\ Harness
  /\ last_sensor_readings' = snapshot
  /\ last' = <<"set_readings", 0, "ok">>
  /\ UNCHANGED <<running, emergency_stop, pump_states, cycle_count, taskVars, signals,
                 hwVars, gpVars, smVars, clockVars, envVars, obsVars, sensorVars>>

\* HydroponicController._should_water()
ApiShouldWater ==
  /\ Harness
  /\ last' = <<"should_water", 0, IF ShouldWater THEN "true" ELSE "false">>
  /\ UNCHANGED <<ctlVars, taskVars, signals, hwVars, gpVars, smVars, clockVars, envVars, sensorVars,
                 obsVars>>

\* the watering decision on snapshots of the caller's choice
NextDecision ==
  \/ \E snapshot \in Snapshots : ApiSetReadings(snapshot)
  \/ ApiShouldWater
SpecDecision == Init /\ [][NextDecision]_vars

\* the safety manager as its callers may drive it, with the controller's two
\* shutdown methods
NextSafetyApi ==
  \/ ApiStartMonitoring
  \/ \E p \in Pins, t \in 0..MaxRegTimeout : ApiRegisterPumpStart(p, t)
  \/ \E p \in Pins : ApiRegisterPumpStop(p)
  \/ ApiResetWatchdog
  \/ \E p \in Pins : ApiCheckPumpSafety(p)
  \/ ApiCheckAll
  \/ ApiTriggerEmergency
  \/ ApiEmergencyShutdown
  \/ ApiStop
  \/ MonitorPass
  \/ Tick
  \/ \E v \in Probes : ResourceChange(v)
SpecSafetyApi == Init /\ [][NextSafetyApi]_vars

\* the controller's pump and shutdown methods as the tests call them (the
\* monitor thread is not started), with pins that may break
NextControllerApi ==
  \/ \E p \in Pins, t \in 0..MaxRegTimeout : ApiStartPump(p, t)
  \/ ApiEmergencyShutdown
  \/ ApiSetRunning
  \/ ApiStop
  \/ ApiTriggerEmergency
  \/ \E tm \in timers : TimerFire(tm)
  \/ Tick
  \/ \E p \in Pins : HardwareFault(p)
SpecControllerApi == Init /\ [][NextControllerApi]_vars

\* the safety manager on a host without psutil
NextNoPsutil ==
  \/ ApiStartMonitoring
  \/ \E p \in Pins, t \in 0..MaxRegTimeout : ApiRegisterPumpStart(p, t)
  \/ \E p \in Pins : ApiRegisterPumpStop(p)
  \/ ApiResetWatchdog
  \/ \E p \in Pins : ApiCheckPumpSafety(p)
  \/ ApiCheckAll
  \/ ApiTriggerEmergency
  \/ MonitorPass
  \/ Tick
SpecNoPsutil == InitNoPsutil /\ [][NextNoPsutil]_vars

\* pumps started and registered by hand under a running monitor, with pins
\* that may break: the timeout sweep at work
NextSweep ==
  \/ ApiStartMonitoring
  \/ \E p \in Pins, t \in 0..MaxRegTimeout : ApiStartPump(p, t)
  \/ \E p \in Pins, t \in 0..MaxRegTimeout : ApiRegisterPumpStart(p, t)
  \/ \E tm \in timers : TimerFire(tm)
  \/ MonitorPass
  \/ Tick
  \/ \E p \in Pins : HardwareFault(p)
SpecSweep == Init /\ [][NextSweep]_vars

\* ------------------------------------------------ OverflowSensorManager
\* what a registered callable is: a function, a coroutine function (awaited),
\* or one that raises when called
CallbackKinds == {"plain", "coroutine", "raising"}

\* an alert loop that the first raising callback ends
TriggerAlertUntilRaise(event) ==
  LET n == Len(alert_callbacks)
      stop == IF \E i \in 1..n : alert_callbacks[i] = "raising"
              THEN CHOOSE i \in 1..n :
                     /\ alert_callbacks[i] = "raising"
                     /\ \A j \in 1..(i - 1) : alert_callbacks[j] # "raising"
              ELSE n
  IN [i \in 1..stop |-> <<i, event>>]
\* _trigger_overflow_alert / _trigger_clear_alert: every callback is called
\* with the event, in order; an exception of one is logged inside the loop
TriggerAlert(event) == [i \in 1..Len(alert_callbacks) |-> <<i, event>>]

\* read_all: the reading of the float switch, the new overflow_detected, the
\* alert on a change of it, then last_readings.update(readings)
OverflowReadAll(name, level) ==
  LET reading == OverflowReading(level)
  IN /\ overflow_detected' = reading
     /\ alert_log' = IF reading /\ ~overflow_detected
                      THEN TriggerAlert("overflow_detected")
                      ELSE IF ~reading /\ overflow_detected
                           THEN TriggerAlert("overflow_cleared")
                           ELSE <<>>
     /\ overflow_last_readings' = Put(overflow_last_readings, OverflowId, reading)
     /\ last' = <<name, OverflowId[2], IF reading THEN "overflow" ELSE "clear">>
     /\ UNCHANGED <<ctlVars, taskVars, signals, hwVars, gpVars, smVars, clockVars,
                    envVars, obsVars, alert_callbacks, moistureVars>>

\* OverflowSensorManager.read_all()
ApiOverflowReadAll(level) ==
  /\ Harness
  /\ OverflowReadAll("overflow_read_all", level)

\* OverflowSensorManager.check_overflow(): any(read_all().values())
ApiCheckOverflow(level) ==
  /\ Harness
  /\ OverflowReadAll("check_overflow", level)

\* add_alert_callback(callback)
ApiAddAlertCallback(kind) ==
  /\ Harness
  /\ Len(alert_callbacks) < MaxCallbacks
  /\ alert_callbacks' = Append(alert_callbacks, kind)
  /\ last' = <<"add_alert_callback", 0, kind>>
  /\ UNCHANGED <<ctlVars, taskVars, signals, hwVars, gpVars, smVars, clockVars,
                 envVars, obsVars, overflow_detected, alert_log, overflow_last_readings,
                 moistureVars>>

\* remove_alert_callback(callback): list.remove drops the first occurrence
ApiRemoveAlertCallback(kind) ==
  /\ Harness
  /\ \E i \in 1..Len(alert_callbacks) :
       /\ alert_callbacks[i] = kind
       /\ \A j \in 1..(i - 1) : alert_callbacks[j] # kind
       /\ alert_callbacks' = SubSeq(alert_callbacks, 1, i - 1)
                               \o SubSeq(alert_callbacks, i + 1, Len(alert_callbacks))
  /\ last' = <<"remove_alert_callback", 0, kind>>
  /\ UNCHANGED <<ctlVars, taskVars, signals, hwVars, gpVars, smVars, clockVars,
                 envVars, obsVars, overflow_detected, alert_log, overflow_last_readings,
                 moistureVars>>

\* the overflow manager as a client drives it, the float switch and its
\* driver being free
NextOverflowAlerts ==
  \/ \E kind \in CallbackKinds : ApiAddAlertCallback(kind)
  \/ \E kind \in CallbackKinds : ApiRemoveAlertCallback(kind)
  \/ \E level \in BOOLEAN : ApiOverflowReadAll(level)
  \/ \E level \in BOOLEAN : ApiCheckOverflow(level)
  \/ \E v \in {"ok", "swallowed", "raised"} : OverflowFault(v)
SpecOverflowAlerts == Init /\ [][NextOverflowAlerts]_vars

\* ------------------------------------------------ MoistureSensorManager
\* MOISTURE_SENSOR_ADDRESSES, and f"moisture_{address:02x}"
MoistureAddresses == {id[2] : id \in MoistureIds}
SensorId(address) == <<"moisture", address>>
\* _convert_to_percentage without calibration data: default_dry, default_wet
DefaultDry == 500
DefaultWet == 200
\* raw capacitance words the bus may deliver: two values around the watering
\* threshold, and one drier than dry
RawValues == {365, 395, 650}
\* _convert_to_percentage: inverted scale, clamped to 0..100
ConvertToPercentage(raw) ==
  IF DefaultDry = DefaultWet THEN 50
  ELSE Max(0, Min(100, ((DefaultDry - raw) * 100) \div (DefaultDry - DefaultWet)))
\* _validate_reading
ValidateReading(value) == 0 <= value /\ value <= 100

\* read_sensor: the timestamp of the address is younger than cache_duration
Cached(address) ==
  /\ address \in DOMAIN last_read_age
  /\ last_read_age[address] < CacheDuration
\* how a read_sensor(address) goes when the bus would deliver raw, or raise
ReadSensorOutcome(address, raw, bus_ok) ==
  IF Cached(address) THEN "cached"
  ELSE IF bus_ok /\ ValidateReading(ConvertToPercentage(raw)) THEN "read"
       ELSE "failed"
\* what read_sensor returns (the empty map for None): on a cache hit
\* self.last_readings.get(sensor_id), else the converted bus word
ReadSensorValue(address, raw, bus_ok) ==
  LET outcome == ReadSensorOutcome(address, raw, bus_ok)
      id == SensorId(address)
  IN IF outcome = "cached"
     THEN IF id \in DOMAIN moisture_last_readings
          THEN Put(EmptyMap, id, moisture_last_readings[id])
          ELSE EmptyMap
     ELSE IF outcome = "read" THEN Put(EmptyMap, id, ConvertToPercentage(raw))
          ELSE EmptyMap
\* last_read_time after the call: set on a valid bus read only
ReadSensorTime(address, raw, bus_ok) ==
  IF ReadSensorOutcome(address, raw, bus_ok) = "read"
  THEN Put(last_read_age, address, 0)
  ELSE last_read_age

\* MoistureSensorManager.read_sensor(address)
ApiReadSensor(address, raw, bus_ok) ==
  /\ Harness
  /\ moisture_returned' = ReadSensorValue(address, raw, bus_ok)
  /\ last_read_age' = ReadSensorTime(address, raw, bus_ok)
  /\ uncached_value' =
       IF ReadSensorOutcome(address, raw, bus_ok) = "read"
       THEN Put(uncached_value, SensorId(address), ConvertToPercentage(raw))
       ELSE uncached_value
  /\ last' = <<"read_sensor", address, ReadSensorOutcome(address, raw, bus_ok)>>
  /\ UNCHANGED <<ctlVars, taskVars, signals, hwVars, gpVars, smVars, clockVars,
                 envVars, obsVars, overflowVars, moisture_last_readings>>

\* MoistureSensorManager.read_all(): read_sensor for every address, the
\* answers that are not None collected, then last_readings.update(readings)
ApiMoistureReadAll(raws, oks) ==
  /\ Harness
  /\ LET delivered == {a \in MoistureAddresses : ReadSensorOutcome(a, raws[a], oks[a]) = "read"}
         answered == {a \in MoistureAddresses :
                        SensorId(a) \in DOMAIN ReadSensorValue(a, raws[a], oks[a])}
         readings == [id \in {SensorId(a) : a \in answered} |->
                        ReadSensorValue(id[2], raws[id[2]], oks[id[2]])[id]]
     IN /\ moisture_returned' = readings
        /\ moisture_last_readings' = Merge(readings, moisture_last_readings)
        /\ last_read_age' = [a \in DOMAIN last_read_age \cup delivered |->
                               IF a \in delivered THEN 0 ELSE last_read_age[a]]
        /\ uncached_value' =
             [id \in DOMAIN uncached_value \cup {SensorId(a) : a \in delivered} |->
                IF id[2] \in delivered THEN ConvertToPercentage(raws[id[2]])
                ELSE uncached_value[id]]
        /\ last' = <<"moisture_read_all", 0,
                     IF answered = MoistureAddresses THEN "all"
                     ELSE IF answered = {} THEN "none" ELSE "some">>
  /\ UNCHANGED <<ctlVars, taskVars, signals, hwVars, gpVars, smVars, clockVars,
                 envVars, obsVars, overflowVars>>

\* the moisture manager as a client drives it, the bus being free
NextMoistureCache ==
  \/ \E a \in MoistureAddresses, raw \in RawValues, bus_ok \in BOOLEAN :
       ApiReadSensor(a, raw, bus_ok)
  \/ \E raws \in [MoistureAddresses -> RawValues], oks \in [MoistureAddresses -> BOOLEAN] :
       ApiMoistureReadAll(raws, oks)
  \/ Tick
SpecMoistureCache == Init /\ [][NextMoistureCache]_vars

\* HydroponicController.get_status(): the fields it reads from the state
GetStatus ==
  [running |-> running,
   emergency_stop |-> emergency_stop,
   pump_states |-> pump_states,
   sensor_readings |-> last_sensor_readings,
   cycle_count |-> cycle_count]

\* ------------------------------------------------------------ properties
AllPinsOff == \A p \in Pins : ~pin_states[p]

\* C1: while the safety manager's emergency flag is active, check_pump_safety
\* refuses every pin: no call made with the flag active answers true, whatever
\* was registered, reset or measured before and however much time has passed
C1_EmergencyRefusesEveryPin ==
  emergency_stop_active =>
    /\ \A p \in Pins : ~CheckPumpSafety(p)
    /\ last[1] = "check_pump_safety" => last[3] = "false"
\* a call refused for the flag alone: load is normal, nothing is registered
C1_Witness ==
  /\ emergency_stop_active
  /\ last = <<"check_pump_safety", 18, "false">>
  /\ resource_probe = "ok"
  /\ pump_timeouts = EmptyMap
  /\ wd_age = 0

C3_WatchdogShutdownStopsPumps ==
  last = <<"monitor_pass", 0, "watchdog">> =>
    /\ emergency_stop_active
    /\ pump_timeouts = EmptyMap
    /\ AllPinsOff

\* C4 as stated: the monitor calls emergency_shutdown once for an expiry, so
\* never again while the watchdog has not been reset since the last call
C4_OneTriggerPerExpiry ==
  [][last' = <<"monitor_pass", 0, "watchdog">> => ~wd_fired]_vars

\* C5 as stated: when the flood loop ends for an overflow, the cycle has left
\* the flood phase, every pump pin is off and the registry is empty
C5_OverflowStopsAllPumps ==
  (last[1] = "flood_stop" /\ last[3] = "overflow") =>
    /\ pc # "flood_loop"
    /\ AllPinsOff
    /\ pump_timeouts = EmptyMap

\* C6 as stated: register_pump_start on a pin that has an entry leaves that
\* entry's deadline as it was
C6_RegisterKeepsDeadline ==
  [][\A p \in Pins :
       (last' = <<"register_pump_start", p, "ok">> /\ p \in DOMAIN pump_timeouts)
         => pump_timeouts'[p] = pump_timeouts[p]]_vars

\* C7: no step takes the controller's emergency_stop or the safety manager's
\* emergency flag from true back to false
C7_EmergencyLatched ==
  [][/\ emergency_stop => emergency_stop'
     /\ emergency_stop_active => emergency_stop_active']_vars
\* both flags are still set after stop() has run through
C7_Witness ==
  /\ emergency_stop
  /\ emergency_stop_active
  /\ last = <<"stop", 0, "ok">>
  /\ ~monitoring

\* C8: the cycle enters the flood phase only in a step in which
\* check_all_safety_conditions passes; a failed pre-flight check changes no
\* pin, schedules no Timer, leaves the cycle counter and skips the flood phase
C8_PreflightGate ==
  [][/\ (pc = "decide" /\ pc' = "flood_start") => CheckAll
     /\ last' = <<"preflight", 0, "false">> =>
          /\ ~CheckAll
          /\ pin_states' = pin_states
          /\ timers' = timers
          /\ cycle_count' = cycle_count
          /\ pc' = "safety_check"]_vars
\* a cycle refused for high load alone, after one cycle has run
C8_Witness ==
  /\ last = <<"preflight", 0, "false">>
  /\ resource_probe = "high"
  /\ ~emergency_stop_active
  /\ cycle_count = 1
  /\ AllPinsOff
  /\ timers = {}

\* C9: a pump pin goes high only in a _start_pump step in which
\* check_pump_safety(pin) is true; when it is false the step answers refused,
\* writes no pin and schedules no Timer
C9_StartPumpGate ==
  [][\A p \in Pins :
       /\ (~pin_states[p] /\ pin_states'[p]) => last' = <<"start_pump", p, "started">>
       /\ last' = <<"start_pump", p, "started">> => CheckPumpSafety(p)
       /\ (last'[1] = "start_pump" /\ last'[2] = p /\ ~CheckPumpSafety(p)) =>
            /\ last'[3] = "refused"
            /\ pin_states' = pin_states
            /\ timers' = timers]_vars
\* pin 18 refused while pin 19 runs: the refusal left pin 19 and its Timer
C9_Witness ==
  /\ last = <<"start_pump", 18, "refused">>
  /\ ~pin_states[18]
  /\ pin_states[19]
  /\ \E tm \in timers : tm[1] = 19
  /\ \A tm \in timers : tm[1] # 18

\* C10: when HydroponicController.emergency_shutdown() has returned, every
\* pump pin is off, emergency_stop is set, running is false, the safety
\* manager's flag is set and its registry is empty
C10_AfterEmergencyShutdown ==
  last = <<"emergency_shutdown", 0, "ok">> =>
    /\ AllPinsOff
    /\ emergency_stop
    /\ ~running
    /\ emergency_stop_active
    /\ pump_timeouts = EmptyMap
\* a shutdown that found both pumps on: their Timers are
\* still pending
C10_Witness ==
  /\ last = <<"emergency_shutdown", 0, "ok">>
  /\ \E tm \in timers : tm[1] = 18
  /\ \E tm \in timers : tm[1] = 19

\* C11: _should_water answers true exactly when some moisture entry of the
\* snapshot is strictly below moisture_threshold; entries at or above it, an
\* empty snapshot and overflow entries never make it true
C11_ShouldWaterIffBelow ==
  last[1] = "should_water" =>
    LET moist == {id \in DOMAIN last_sensor_readings : id[1] = "moisture"}
    IN (last[3] = "true") <=> ~(\A id \in moist : last_sensor_readings[id] >= MoistureThreshold)
\* no watering for one reading at the threshold next to an overflow entry
\* that reads true
C11_Witness ==
  /\ last = <<"should_water", 0, "false">>
  /\ DOMAIN last_sensor_readings = {MoistureId, OverflowId}
  /\ last_sensor_readings[MoistureId] = MoistureThreshold
  /\ last_sensor_readings[OverflowId] = TRUE

\* C12 as stated: a tick whose read delivered no moisture value treats the
\* reading as unknown, so its decision never starts a watering cycle
C12_FailedSensorNeverWaters ==
  [][(pc = "decide" /\ last = <<"read_sensors", 0, "no_moisture">>)
       => last' # <<"preflight", 0, "true">>]_vars

\* C13: with flood_duration = 0 the flood loop's first evaluation ends the
\* phase for the elapsed time: its body never runs, no exception is raised,
\* every pump pin is off afterwards and the cycle goes on to the drain phase
C13_ZeroFloodCycle ==
  [][flood_duration = 0 =>
       /\ last' # <<"flood_loop", 0, "sleep">>
       /\ last'[1] = "flood_stop" =>
            /\ last' = <<"flood_stop", 0, "elapsed">>
            /\ \A p \in Pins : ~pin_states'[p] /\ ~pump_states'[p]
            /\ pc' = "drain"]_vars
\* both pumps were activated, and the loop ended before their Timers fired
C13_Witness ==
  /\ flood_duration = 0
  /\ last = <<"flood_stop", 0, "elapsed">>
  /\ timers = {<<18, 0>>, <<19, 0>>}
  /\ AllPinsOff
  /\ pc = "drain"

\* C14: check_pump_safety(pin) answers true exactly when
\* check_all_safety_conditions() is true and the pin has no registry entry
C14_PumpSafetyIffSafeAndUnregistered ==
  \A p \in Pins :
    (last[1] = "check_pump_safety" /\ last[2] = p) =>
      ((last[3] = "true") <=>
         (/\ ~emergency_stop_active
          /\ resource_probe \in {"ok", "missing"}
          /\ p \notin DOMAIN pump_timeouts))
\* pin 19 refused for its registry entry alone, while pin 18 has none
C14_Witness ==
  /\ last = <<"check_pump_safety", 19, "false">>
  /\ CheckAll
  /\ DOMAIN pump_timeouts = {19}

\* C15 as stated: a pump pin the control loop has switched on has an entry
\* in the timeout registry
C15_ActivePumpsRegistered ==
  \A p \in Pins : pin_states[p] => p \in DOMAIN pump_timeouts

\* C16 as stated: the monitor finds the watchdog expired only when the control
\* loop has let more than watchdog_timeout pass without completing a tick
C16_TimelyTicksKeepWatchdogQuiet ==
  last = <<"monitor_pass", 0, "watchdog">> => tick_age > WatchdogTimeout

\* C17 as stated: an evaluation of the flood loop made while the safety
\* manager's emergency flag is set ends the flood phase; it never sleeps on
C17_EmergencyFlagEndsFlood ==
  [][(pc = "flood_loop" /\ emergency_stop_active)
       => last' # <<"flood_loop", 0, "sleep">>]_vars

\* C18 as stated: once stop() has run through (the GPIO is cleaned up, the
\* monitor stopped), no Timer callback runs _force_stop_pump any more
C18_NoCallbackAfterStop ==
  [][(pc # "init" /\ ~gpio_initialized /\ ~monitoring)
       => last'[1] # "force_stop_pump"]_vars

\* C19 as stated: whenever the control task is not between a pin write and
\* its bookkeeping, pump_states agrees with the level of every pump pin
C19_PumpStatesMatchPins ==
  pc # "flood_book" => \A p \in Pins : pump_states[p] = pin_states[p]

\* C20 as stated: when three ticks in a row have ended in the except branch
\* of the control loop, the safety manager's emergency flag is set
C20_ThreeFailuresEscalate ==
  failed_ticks >= 3 => emergency_stop_active

\* C21 as stated: when a tick has ended in the except branch of the control
\* loop and the loop is in its back-off sleep, every pump whose pin can still
\* be written is off
C21_FailedTickLeavesPumpsOff ==
  (/\ pc = "sleep"
   /\ \/ last[1] = "flood_stop" /\ last[2] # 0
      \/ last = <<"safety_check", 0, "raised">>
      \/ last = <<"emergency_shutdown", 0, "raised">>)
    => \A p \in Pins \ pin_fault : ~pin_states[p]

\* C22 as stated: after any operation that forces all pumps off (the end of
\* the flood phase, a failed safety check, an emergency shutdown, stop) every
\* pump whose pin write can succeed is off
C22_StopAllIsolatesFaults ==
  (\/ last[1] \in {"flood_stop", "emergency_shutdown", "stop", "stop_again", "signal_stop"}
   \/ last[1] = "safety_check" /\ last[3] # "true")
    => \A p \in Pins \ pin_fault : ~pin_states[p]

\* C23 as stated: the monitor's timeout sweep drops a pin from the registry
\* only when the pump is off afterwards
C23_EntryRemovedOnlyWhenOff ==
  [][\A p \in Pins :
       (/\ last' = <<"monitor_pass", 0, "sweep">>
        /\ p \in DOMAIN pump_timeouts
        /\ p \notin DOMAIN pump_timeouts')
         => ~pin_states'[p]]_vars

\* C24 as stated: check_all answers true only when the watchdog is fresh and
\* no registry entry has expired
C24_CheckAllSeesWatchdogAndRegistry ==
  last = <<"check_all", 0, "true">> =>
    /\ wd_age <= WatchdogTimeout
    /\ ExpiredIn(pump_timeouts) = {}

\* C25: a check_all call changes nothing but the violation list: not the
\* emergency flag, the watchdog, the registry or a pin; and a call that
\* directly follows another gives the same answer and the same list
C25_CheckAllIdempotent ==
  [][last'[1] = "check_all" =>
       /\ UNCHANGED <<ctlVars, taskVars, signals, hwVars, gpVars, monitoring,
                      emergency_stop_active, pump_timeouts, wd_fired, clockVars,
                      envVars>>
       /\ last[1] = "check_all" =>
            /\ last'[3] = last[3]
            /\ safety_violations' = safety_violations]_vars
\* a call under a running monitor that found high load and left the expired
\* watchdog and the expired entry of pin 18 as they were
C25_Witness ==
  /\ last = <<"check_all", 0, "false">>
  /\ safety_violations = <<"System resource limits exceeded">>
  /\ monitoring
  /\ ~emergency_stop_active
  /\ wd_age > WatchdogTimeout
  /\ 18 \in ExpiredIn(pump_timeouts)

\* C26 as stated: a check_all call made while the resource query throws or
\* cannot be made at all answers false
C26_FailedPredicateCountsAsViolated ==
  (last[1] = "check_all" /\ resource_probe \in {"error", "missing"})
    => last[3] = "false"

\* C27 as stated: a status read taken while the safety manager's emergency
\* flag is active reports emergency_stop = true
C27_StatusShowsEmergency ==
  emergency_stop_active => GetStatus.emergency_stop

\* C28: a _read_sensors call in which the moisture or the overflow source
\* raises returns normally and the tick goes on to the watering decision; the
\* snapshot keeps what it held for the source that raised
C28_ReadSensorsContainsErrors ==
  [][last'[1] = "read_sensors" =>
       /\ pc' = "decide"
       /\ UNCHANGED <<running, emergency_stop, pin_states, pump_states, failed_ticks>>
       /\ last'[3] = "moisture_raised" => last_sensor_readings' = last_sensor_readings
       /\ last'[3] = "overflow_raised" =>
            /\ (OverflowId \in DOMAIN last_sensor_readings')
                   <=> (OverflowId \in DOMAIN last_sensor_readings)
            /\ OverflowId \in DOMAIN last_sensor_readings =>
                 last_sensor_readings'[OverflowId] = last_sensor_readings[OverflowId]]_vars
\* in the tick after a completed cycle the moisture source raised: the
\* snapshot still holds both earlier readings
C28_Witness ==
  /\ last = <<"read_sensors", 0, "moisture_raised">>
  /\ pc = "decide"
  /\ cycle_count = 1
  /\ DOMAIN last_sensor_readings = {MoistureId, OverflowId}
  /\ last_sensor_readings[MoistureId] = 35
  /\ last_sensor_readings[OverflowId]

\* C29: while reads of the overflow pin fail, whether read_pin swallows the
\* driver error or raises, read_all records the sensor as true and
\* check_overflow answers true: a _read_sensors call stores true, and a flood
\* loop evaluation made before the time is up ends the phase for overflow
C29_FailedOverflowReadMeansOverflow ==
  [][overflow_fault # "ok" =>
       /\ \A level \in BOOLEAN : OverflowReading(level) /\ CheckOverflow(level)
       /\ (last'[1] = "read_sensors" /\ last'[3] \in {"ok", "no_moisture"}) =>
            last_sensor_readings'[OverflowId]
       /\ last' # <<"flood_loop", 0, "sleep">>
       /\ (last'[1] = "flood_stop" /\ flood_elapsed < flood_duration) =>
            last'[3] = "overflow"]_vars
\* the read at the start of the tick found no overflow; then the driver began
\* to fail and the flood loop ended the phase with both pumps switched off
C29_Witness ==
  /\ last = <<"flood_stop", 0, "overflow">>
  /\ overflow_fault = "swallowed"
  /\ ~last_sensor_readings[OverflowId]
  /\ flood_elapsed < flood_duration
  /\ timers = {<<18, 1>>, <<19, 1>>}
  /\ AllPinsOff

\* C30: a _start_pump call whose pin write fails returns false to the flood
\* phase, which goes on: no Timer is scheduled, no pin changes, the pump is
\* not recorded as on and the tick is not failed
C30_StartPumpContainsWriteFailure ==
  [][\A p \in Pins :
       (last'[1] = "start_pump" /\ last'[2] = p /\ WriteFails(p) /\ CheckPumpSafety(p)) =>
         /\ last'[3] = "raised"
         /\ timers' = timers
         /\ pin_states' = pin_states
         /\ pump_states' = pump_states
         /\ pc' \in {"flood_start", "flood_loop"}
         /\ failed_ticks' = failed_ticks]_vars
\* pump 18 was started, the write to pin 19 failed: the flood loop begins with
\* pump 19 off, unrecorded and without a Timer
C30_Witness ==
  /\ last = <<"start_pump", 19, "raised">>
  /\ pc = "flood_loop"
  /\ pin_states[18] /\ pump_states[18]
  /\ ~pin_states[19] /\ ~pump_states[19]
  /\ timers = {<<18, flood_duration>>}

\* C31: in the flood entry loop a _start_pump that is refused or whose write
\* fails does not end the cycle: the loop goes on to the next configured pin,
\* and after the last one into the monitoring loop, with the pumps that did
\* start left on
C31_PartialActivation ==
  [][(last'[1] = "start_pump" /\ pc = "flood_start") =>
       /\ last'[2] = PumpPins[idx]
       /\ last'[3] # "started" =>
            /\ IF idx < Len(PumpPins)
               THEN pc' = "flood_start" /\ idx' = idx + 1
               ELSE pc' = "flood_loop"
            /\ pin_states' = pin_states
            /\ pump_states' = pump_states
       /\ last'[3] = "started" => (pc' = "flood_book" /\ idx' = idx)]_vars
\* the write to pin 18 failed, and pump 19 was started after it
C31_Witness ==
  /\ last = <<"start_pump", 19, "started">>
  /\ pin_fault = {18}
  /\ ~pin_states[18]
  /\ pin_states[19]
  /\ pc = "flood_book"

\* C32 as stated: a tick that finds the emergency input active runs
\* emergency_shutdown: afterwards every pump that can be written is off, both
\* emergency flags are set, and the loop ends without reading the sensors
C32_EmergencyInputShutsDown ==
  [][(pc = "loop_top" /\ last'[1] = "emergency_shutdown") =>
       /\ \A p \in Pins \ pin_fault : ~pin_states'[p]
       /\ emergency_stop'
       /\ emergency_stop_active'
       /\ ~running'
       /\ pc' = "finally"]_vars

C34_EmergencyFlagsAgree ==
  (pc \in {"finally", "main_finally", "done"} /\ emergency_stop)
    => emergency_stop_active

\* C35: while no pin write has a fault and the control task is outside the
\* flood phase (idle, draining, ending the tick, stopping), every pump pin is
\* off
C35_PumpsOnOnlyWhileFlooding ==
  (pin_fault = {} /\ pc \notin {"init", "flood_start", "flood_book", "flood_loop"})
    => AllPinsOff
\* the drain phase of a cycle that ran its full flood time: the pumps are off
\* and their Timers are due
C35_Witness ==
  /\ pc = "drain"
  /\ last = <<"flood_stop", 0, "elapsed">>
  /\ flood_duration > 0
  /\ timers = {<<18, 0>>, <<19, 0>>}
  /\ AllPinsOff
  /\ pin_fault = {}

\* C36 as stated: a force-off Timer acts only on the activation that scheduled
\* it, so when it switches a running pump off, that pump has been on for the
\* whole flood duration the Timer was scheduled with
C36_TimerActsOnOwnActivation ==
  [][\A p \in Pins :
       (last' = <<"force_stop_pump", p, "ok">> /\ pin_states[p])
         => on_age[p] >= flood_duration]_vars

\* C37: cycle_count never decreases; it changes only in the step that ends the
\* drain phase of a cycle (which passed the pre-flight check and came out of
\* its flood phase), and then by exactly one; it is unchanged by a refused
\* pre-flight check and by a cycle that an exception aborts
C37_CycleCountCountsCompletedCycles ==
  [][/\ cycle_count' >= cycle_count
     /\ cycle_count' # cycle_count =>
           /\ pc = "drain"
           /\ last' = <<"cycle_done", 0, "ok">>
           /\ cycle_count' = cycle_count + 1
     /\ (pc = "drain" /\ pc' # "drain") => cycle_count' = cycle_count + 1
     /\ last' = <<"preflight", 0, "false">> =>
           (cycle_count' = cycle_count /\ pc' \notin {"flood_start", "drain"})
     /\ (last'[1] = "flood_stop" /\ last'[2] # 0) =>
           (cycle_count' = cycle_count /\ pc' \notin {"drain"})]_vars
\* a cycle aborted by a raising pin write after an earlier cycle was counted
C37_Witness ==
  /\ last[1] = "flood_stop"
  /\ last[2] # 0
  /\ cycle_count = 1
  /\ pc = "sleep"

\* C38 as stated: stop() called again by main() after a stop() that completed
\* raises no error and leaves the state the first call left
C38_StopIdempotent ==
  [][(pc = "main_finally" /\ ~gpio_initialized /\ last'[1] = "stop_again") =>
       /\ last'[3] = "ok"
       /\ running' = running
       /\ pin_states' = pin_states
       /\ pump_states' = pump_states
       /\ gpio_initialized' = gpio_initialized
       /\ monitoring' = monitoring]_vars

\* C39: a read_all (also the one inside check_overflow) calls every registered
\* callback, raising ones and those after them included, with
\* 'overflow_detected' when overflow_detected goes from false to true, with
\* 'overflow_cleared' when it goes from true to false, and calls none when it
\* stays as it was; overflow_detected is what the read found
C39_AlertsEdgeTriggered ==
  [][last'[1] \in {"overflow_read_all", "check_overflow"} =>
       LET was == overflow_detected
           now == overflow_detected'
           all(event) == [i \in 1..Len(alert_callbacks) |-> <<i, event>>]
       IN /\ now = overflow_last_readings'[OverflowId]
          /\ now = (last'[3] = "overflow")
          /\ (~was /\ now) => alert_log' = all("overflow_detected")
          /\ (was /\ ~now) => alert_log' = all("overflow_cleared")
          /\ (was = now) => alert_log' = <<>>
          /\ alert_callbacks' = alert_callbacks]_vars
\* overflow has cleared and both callbacks were told, the first of them a
\* raising one
C39_Witness ==
  /\ last = <<"overflow_read_all", 21, "clear">>
  /\ alert_callbacks = <<"raising", "plain">>
  /\ alert_log = <<<<1, "overflow_cleared">>, <<2, "overflow_cleared">>>>
  /\ ~overflow_detected

\* C40 as stated: a read_sensor(address) made while the timestamp of the
\* address is younger than cache_duration does not touch the bus and returns
\* the value the last successful bus read of that sensor returned; a failed
\* read returns None and leaves the timestamps as they were
C40_CachedReadReturnsLastRead ==
  [][\A a \in MoistureAddresses :
       (last'[1] = "read_sensor" /\ last'[2] = a) =>
         /\ Cached(a) =>
              /\ last'[3] = "cached"
              /\ moisture_returned' =
                   Put(EmptyMap, SensorId(a), uncached_value[SensorId(a)])
         /\ last'[3] = "failed" =>
              /\ moisture_returned' = EmptyMap
              /\ last_read_age' = last_read_age]_vars

====
